---- MODULE Spec2Model ----
(***************************************************************************)
(* The routing table of one Kademlia node (src/routing_table.py), its      *)
(* k-buckets (src/bucket.py) and its PING supervisor                       *)
(* (src/message_supervisor/), together with the remote nodes that answer   *)
(* (or do not answer) the PING messages the routing table sends.           *)
(*                                                                         *)
(* Threads of the node: the caller of add_node / notify_ping_response      *)
(* (the receive loop), the inserter thread (pool scanner), the cleaner     *)
(* thread of the supervisor, and one thread per expired PING (callback).   *)
(***************************************************************************)
EXTENDS Integers, Sequences, FiniteSets, TLC

\* ------------------------------------------------------------------ bounds
\* config.id_length: the width of an identifier and the number of k-buckets.
IdLength == 3
\* config.k: the capacity of a k-bucket.
K == 2
\* config.message_ping_node_timeout, in seconds.
PingTimeout == 1
\* The clock counts half seconds, from 0 to MaxTime.
MaxTime == 3
\* The number of request IDs that Message.get_new_request_id may hand out.
MaxRequests == 3
\* The number of remote nodes that may terminate.
MaxTerminated == 1
\* The number of calls of add_node on a routing table of any identifier.
MaxNodes == 3
\* The number of messages that are sent to the node.
MaxMessages == 4

\* The identifier of the local node, and the remote identifiers that are ever
\* named to it: 0, 1, 2 belong to bucket 2, and 4 belongs to bucket 0.
LocalId == 5
Peers == {0, 1, 2, 4}

\* Python's None, for an Optional[NodeId] or an Optional[BucketIndex].
None == -1

BucketIds == 0 .. (IdLength - 1)

VARIABLES
    buckets,            \* RoutingTable.__shared_buckets: bucket -> sequence of NodeData (dict order)
    pools,              \* RoutingTable.__shared_insertion_pools: bucket -> sequence of node IDs (dict order)
    busy,               \* RoutingTable.__shared_insertion_pools_busy_flags
    messages,           \* MessageSupervisor.__messages: the supervised PING messages
    callbacks,          \* the started callback threads that did not run yet
    request_id,         \* Message.__shared_request_id_reference
    queues,             \* QueueManager.__shared_queues: the IDs of the running nodes
    pings,              \* the PING messages put in the queues of remote nodes
    responses,          \* the PING_RESPONSE messages put in the queue of the local node
    now,                \* time(), in half seconds
    pc,                 \* where the caller is within notify_ping_response
    msg,                \* the PING_RESPONSE being processed by notify_ping_response
    inserter_running,   \* FALSE once an exception ended the inserter thread
    raised,             \* the exception that ended the last call of add_node, or "no"
    quiet,              \* history: the inserter passes since the last offer or timeout
    cycle,              \* history: per bucket, the PINGs sent since its pool was last empty
    table,              \* a RoutingTable of any identifier and configuration: its buckets
    answer,             \* the value returned by the last call on that routing table
    supervisor,         \* MessageSupervisor: its lock, its __continue flag, its cleaner thread
    log,                \* history: what was added to, deleted from and expired in the supervisor
    node,               \* Node: its listener thread, __connected, __connected_lock, its stop flags
    inbox,              \* Node.__input_queue
    outbox,             \* the messages the node sent
    delivered,          \* history: the messages put in the input queue, in the order of their arrival
    inserter,           \* the inserter thread, statement by statement: where it is in its pass
    answered,           \* history: the PINGs whose PING_RESPONSE was processed before they expired
    boot                \* Node.__init__: where the constructor of a node is

core == <<buckets, pools, busy, messages, callbacks, request_id, queues, pings,
          responses, now, pc, msg, inserter_running, raised>>

tablevars == <<table, answer>>

supvars == <<supervisor, log>>

nodevars == <<node, inbox, outbox, delivered>>

racevars == <<inserter, answered>>

bootvars == <<boot>>

vars == <<core, quiet, cycle, tablevars, supvars, nodevars, racevars, bootvars>>

\* ------------------------------------------------------------------ clock
\* floor(time()) and ceil(time()), the clock counting half seconds.
FloorTime == now \div 2
CeilTime == (now + 1) \div 2

\* ------------------------------------------------------------------ identifiers
RECURSIVE Pow2(_)
Pow2(n) == IF n = 0 THEN 1 ELSE 2 * Pow2(n - 1)

\* x >> i
Shr(x, i) == x \div Pow2(i)

\* x ^ 1
Xor1(x) == IF x % 2 = 0 THEN x + 1 ELSE x - 1

\* a ^ b
RECURSIVE Xor(_, _)
Xor(a, b) ==
    IF a = 0 /\ b = 0 THEN 0
    ELSE (IF a % 2 = b % 2 THEN 0 ELSE 1) + 2 * Xor(a \div 2, b \div 2)

\* The bucket masks: (identifier >> i) ^ 1.
BucketMaskNoFlip(i) == Shr(LocalId, i)
BucketMask(i) == Xor1(Shr(LocalId, i))

\* The first index i with ((identifier >> i) ^ mask[i]) == 0, None if there is none.
RECURSIVE FindBucketIndexFrom(_, _)
FindBucketIndexFrom(identifier, i) ==
    IF i >= IdLength THEN None
    ELSE IF Xor(Shr(identifier, i), BucketMask(i)) = 0 THEN i
    ELSE FindBucketIndexFrom(identifier, i + 1)

FindBucketIndex(identifier) == FindBucketIndexFrom(identifier, 0)

\* ------------------------------------------------------------------ k-bucket
\* A k-bucket is the sequence of the values of Bucket.__shared_nodes, in the
\* order of the dictionary (the order of insertion).
Ids(nodes) == {nodes[j].identifier : j \in 1 .. Len(nodes)}

ContainsNode(nodes, identifier) == identifier \in Ids(nodes)

\* Bucket.add_node without its test of the size limit.
BucketAddNodeUnbounded(nodes, node_data) ==
    IF ContainsNode(nodes, node_data.identifier)
    THEN [nodes |-> nodes, added |-> FALSE, already_in |-> TRUE]
    ELSE [nodes |-> Append(nodes, node_data), added |-> TRUE, already_in |-> FALSE]

\* Bucket.add_node with the test of the size limit before the test of presence.
BucketAddNodeSizeFirst(nodes, node_data) ==
    IF Len(nodes) = K
    THEN [nodes |-> nodes, added |-> FALSE, already_in |-> FALSE]
    ELSE IF ContainsNode(nodes, node_data.identifier)
    THEN [nodes |-> nodes, added |-> FALSE, already_in |-> TRUE]
    ELSE [nodes |-> Append(nodes, node_data), added |-> TRUE, already_in |-> FALSE]

\* Bucket.add_node(node_data), on a bucket of the routing table of the node.
BucketAddNode(nodes, node_data) ==
    IF ContainsNode(nodes, node_data.identifier)
    THEN [nodes |-> nodes, added |-> FALSE, already_in |-> TRUE]
    ELSE IF Len(nodes) = K
    THEN [nodes |-> nodes, added |-> FALSE, already_in |-> FALSE]
    ELSE [nodes |-> Append(nodes, node_data), added |-> TRUE, already_in |-> FALSE]

\* del self.__shared_nodes[identifier]; the caller has tested that it is there.
BucketRemoveNode(nodes, identifier) ==
    SelectSeq(nodes, LAMBDA n : n.identifier # identifier)

\* sorted(values, key=last_seen_date)[0]: the sort is stable, so that among
\* the nodes of the smallest date the first of the dictionary is returned.
GetLeastRecentlySeen(nodes) ==
    IF Len(nodes) = 0 THEN None
    ELSE LET j == CHOOSE j \in 1 .. Len(nodes) :
                    \A l \in 1 .. Len(nodes) :
                        \/ nodes[j].last_seen_date < nodes[l].last_seen_date
                        \/ nodes[j].last_seen_date = nodes[l].last_seen_date /\ j <= l
         IN nodes[j].identifier

\* max(values, key=last_seen_date): among the nodes of the largest date the
\* first of the dictionary is returned.
GetMostRecentlySeenFirst(nodes) ==
    IF Len(nodes) = 0 THEN None
    ELSE LET j == CHOOSE j \in 1 .. Len(nodes) :
                    \A l \in 1 .. Len(nodes) :
                        \/ nodes[j].last_seen_date > nodes[l].last_seen_date
                        \/ nodes[j].last_seen_date = nodes[l].last_seen_date /\ j <= l
         IN nodes[j].identifier

\* sorted(values, key=last_seen_date)[-1]: among the nodes of the largest
\* date the last of the dictionary is returned.
GetMostRecentlySeen(nodes) ==
    IF Len(nodes) = 0 THEN None
    ELSE LET j == CHOOSE j \in 1 .. Len(nodes) :
                    \A l \in 1 .. Len(nodes) :
                        \/ nodes[j].last_seen_date > nodes[l].last_seen_date
                        \/ nodes[j].last_seen_date = nodes[l].last_seen_date /\ j >= l
         IN nodes[j].identifier

\* Bucket.set_most_recently_seen: last_seen_date = ceil(time()), in place.
SetMostRecentlySeen(nodes, node_id) ==
    [j \in 1 .. Len(nodes) |->
        IF nodes[j].identifier = node_id
        THEN [nodes[j] EXCEPT !.last_seen_date = CeilTime]
        ELSE nodes[j]]

\* ------------------------------------------------------------------ routing table
\* RoutingTable.add_node, from "with self.__lock_buckets" on, without the
\* statement that stores the candidate in the insertion pool.
AddNodeLockedNoPool(bs, ps, node_id, has_message) ==
    LET bucket_index == FindBucketIndex(node_id) IN
    IF bucket_index = None
    THEN [buckets |-> bs, pools |-> ps, raised |-> "TypeError"]
    ELSE LET r == BucketAddNode(bs[bucket_index],
                                [identifier |-> node_id, last_seen_date |-> FloorTime])
         IN [buckets |-> [bs EXCEPT ![bucket_index] = r.nodes], pools |-> ps, raised |-> "no"]

\* RoutingTable.add_node, from "with self.__lock_buckets" on. A bucket index
\* of None makes the subscription of the tuple of buckets raise TypeError.
AddNodeLocked(bs, ps, node_id, has_message) ==
    LET bucket_index == FindBucketIndex(node_id) IN
    IF bucket_index = None
    THEN [buckets |-> bs, pools |-> ps, raised |-> "TypeError"]
    ELSE
    LET r == BucketAddNode(bs[bucket_index],
                           [identifier |-> node_id, last_seen_date |-> FloorTime])
        bs1 == [bs EXCEPT ![bucket_index] = r.nodes]
    IN  IF ~has_message
        THEN [buckets |-> bs1, pools |-> ps, raised |-> "no"]
        ELSE IF ~r.added /\ ~r.already_in
                  /\ \A j \in 1 .. Len(ps[bucket_index]) : ps[bucket_index][j] # node_id
        THEN [buckets |-> bs1,
              pools |-> [ps EXCEPT ![bucket_index] = Append(@, node_id)],
              raised |-> "no"]
        ELSE [buckets |-> bs1, pools |-> ps, raised |-> "no"]

\* RoutingTable.add_node without its test of the local node.
AddNodeNoLocalTest(bs, ps, node_id, has_message) ==
    AddNodeLocked(bs, ps, node_id, has_message)

\* RoutingTable.add_node(node_id, message), on the buckets bs and the pools ps.
\* raised: "no", or the exception that ended the call.
AddNode(bs, ps, node_id, has_message) ==
    IF node_id = LocalId
    THEN [buckets |-> bs, pools |-> ps, raised |-> "Exception"]
    ELSE AddNodeLocked(bs, ps, node_id, has_message)

\* RoutingTable.__thread_ping_no_response without its last statement, which
\* clears the busy flag.
ThreadPingNoResponseKeepsBusy(bs, ps, bz, node_to_evict, replacement_node_id) ==
    LET bucket_id == IF node_to_evict = None THEN None ELSE FindBucketIndex(node_to_evict) IN
    IF bucket_id = None
    THEN [buckets |-> bs, busy |-> bz, raised |-> "TypeError"]
    ELSE IF ~ContainsNode(bs[bucket_id], node_to_evict)
    THEN [buckets |-> bs, busy |-> bz, raised |-> "Exception"]
    ELSE
    LET bs1 == [bs EXCEPT ![bucket_id] = BucketRemoveNode(@, node_to_evict)]
        a == AddNode(bs1, ps, replacement_node_id, FALSE)
    IN  [buckets |-> IF a.raised # "no" THEN bs1 ELSE a.buckets, busy |-> bz,
         raised |-> a.raised]

\* RoutingTable.__thread_ping_no_response(message, replacement_node_id), with
\* message.recipient = node_to_evict. An exception leaves what was done before it.
ThreadPingNoResponse(bs, ps, bz, node_to_evict, replacement_node_id) ==
    LET bucket_id == IF node_to_evict = None THEN None ELSE FindBucketIndex(node_to_evict) IN
    IF bucket_id = None
    THEN [buckets |-> bs, busy |-> bz, raised |-> "TypeError"]
    ELSE IF ~ContainsNode(bs[bucket_id], node_to_evict)
    THEN [buckets |-> bs, busy |-> bz, raised |-> "Exception"]
    ELSE
    LET bs1 == [bs EXCEPT ![bucket_id] = BucketRemoveNode(@, node_to_evict)]
        a == AddNode(bs1, ps, replacement_node_id, FALSE)
    IN  IF a.raised # "no"
        THEN [buckets |-> bs1, busy |-> bz, raised |-> a.raised]
        ELSE [buckets |-> a.buckets, busy |-> [bz EXCEPT ![bucket_id] = FALSE], raised |-> "no"]

\* RoutingTable.__ping_for_replacement(bucket_idx, new_node_to_insert_id), on
\* the state st of the inserter's scan.
PingForReplacement(st, bucket_idx, new_node_to_insert_id) ==
    LET lrs == GetLeastRecentlySeen(st.buckets[bucket_idx])
        rid == st.request_id + 1
    IN  IF lrs \notin st.queues
        THEN LET r == ThreadPingNoResponse(st.buckets, st.pools, st.busy, lrs,
                                           new_node_to_insert_id)
             IN [st EXCEPT !.buckets = r.buckets, !.busy = r.busy, !.request_id = rid,
                           !.raised = r.raised,
                           !.replaced = @ \cup {<<lrs, new_node_to_insert_id>>}]
        ELSE [st EXCEPT !.request_id = rid,
                        !.pings = @ \cup {[request_id |-> rid, recipient |-> lrs]},
                        !.messages = @ \cup {[request_id |-> rid,
                                              expiration |-> CeilTime + PingTimeout,
                                              recipient |-> lrs,
                                              replacement |-> new_node_to_insert_id]}]

\* The loop of RoutingTable.__thread_inserter without its test of the busy flag.
RECURSIVE InserterScanNoSkip(_, _)
InserterScanNoSkip(st, bucket_id) ==
    IF bucket_id >= IdLength \/ st.raised # "no" THEN st
    ELSE IF Len(st.pools[bucket_id]) = 0 THEN InserterScanNoSkip(st, bucket_id + 1)
    ELSE LET pool == st.pools[bucket_id]
             node_id == pool[Len(pool)]
             st1 == [st EXCEPT !.busy[bucket_id] = TRUE]
         IN InserterScanNoSkip(PingForReplacement(st1, bucket_id, node_id), bucket_id + 1)

\* The loop of RoutingTable.__thread_inserter over the insertion pools, from
\* bucket_id on, under the lock of the buckets.
RECURSIVE InserterScan(_, _)
InserterScan(st, bucket_id) ==
    IF bucket_id >= IdLength \/ st.raised # "no" THEN st
    ELSE IF st.busy[bucket_id] THEN InserterScan(st, bucket_id + 1)
    ELSE IF Len(st.pools[bucket_id]) = 0 THEN InserterScan(st, bucket_id + 1)
    ELSE LET pool == st.pools[bucket_id]
             node_id == pool[Len(pool)]
             st1 == [st EXCEPT !.busy[bucket_id] = TRUE]
         IN InserterScan(PingForReplacement(st1, bucket_id, node_id), bucket_id + 1)

ScanStart ==
    [buckets |-> buckets, pools |-> pools, busy |-> busy, messages |-> messages,
     pings |-> pings, request_id |-> request_id, queues |-> queues,
     raised |-> "no", replaced |-> {}]

\* No PING_RESPONSE is being processed.
NoMessage == [request_id |-> 0, sender_id |-> None, tracked |-> FALSE, replacement |-> None]

\* ------------------------------------------------------------------ any routing table
\* RoutingTable.__init_bucket_masks, for the routing table of the node
\* identifier under config.id_length = id_length, without the "^ 1".
InitBucketMasksNoFlip(identifier, id_length) ==
    [i \in 0 .. id_length - 1 |-> Shr(identifier, i)]

\* RoutingTable.__init_bucket_masks: the tuple of (identifier >> i) ^ 1.
InitBucketMasks(identifier, id_length) ==
    [i \in 0 .. id_length - 1 |-> Xor1(Shr(identifier, i))]

\* RoutingTable.__init__: the routing table of the node identifier, with
\* id_length empty buckets of size limit k.
NewTable(identifier, id_length, k) ==
    [identifier |-> identifier, id_length |-> id_length, k |-> k,
     masks |-> InitBucketMasks(identifier, id_length),
     buckets |-> [i \in 0 .. id_length - 1 |-> <<>>]]

\* RoutingTable.__find_bucket_index on the routing table rt, from index i on.
RECURSIVE FindBucketIndexIn(_, _, _)
FindBucketIndexIn(rt, identifier, i) ==
    IF i >= rt.id_length THEN None
    ELSE IF Xor(Shr(identifier, i), rt.masks[i]) = 0 THEN i
    ELSE FindBucketIndexIn(rt, identifier, i + 1)

\* Bucket.add_node on a bucket of size limit size_limit.
BucketAddNodeLimit(size_limit, nodes, node_data) ==
    IF ContainsNode(nodes, node_data.identifier)
    THEN [nodes |-> nodes, added |-> FALSE, already_in |-> TRUE]
    ELSE IF Len(nodes) = size_limit
    THEN [nodes |-> nodes, added |-> FALSE, already_in |-> FALSE]
    ELSE [nodes |-> Append(nodes, node_data), added |-> TRUE, already_in |-> FALSE]

\* RoutingTable.add_node(node_id) on the routing table rt, without message.
TableAddNode(rt, node_id) ==
    IF node_id = rt.identifier
    THEN [table |-> rt, raised |-> "Exception"]
    ELSE LET bucket_index == FindBucketIndexIn(rt, node_id, 0) IN
         IF bucket_index = None
         THEN [table |-> rt, raised |-> "TypeError"]
         ELSE LET r == BucketAddNodeLimit(rt.k, rt.buckets[bucket_index],
                          [identifier |-> node_id, last_seen_date |-> FloorTime])
              IN [table |-> [rt EXCEPT !.buckets[bucket_index] = r.nodes], raised |-> "no"]

\* The identifiers of the buckets i .. id_length - 1 of rt, bucket after
\* bucket, each in the order of its dictionary.
RECURSIVE AllNodesIds(_, _)
AllNodesIds(rt, i) ==
    IF i >= rt.id_length THEN <<>>
    ELSE [j \in 1 .. Len(rt.buckets[i]) |-> rt.buckets[i][j].identifier]
         \o AllNodesIds(rt, i + 1)

\* sorted(ids, key=lambda pid: node_id ^ pid): the sort is stable, the first
\* of the smallest key comes first.
RECURSIVE Sorted(_, _)
Sorted(ids, node_id) ==
    IF ids = <<>> THEN <<>>
    ELSE LET j == CHOOSE j \in 1 .. Len(ids) :
                    \A l \in 1 .. Len(ids) :
                        \/ Xor(node_id, ids[j]) < Xor(node_id, ids[l])
                        \/ Xor(node_id, ids[j]) = Xor(node_id, ids[l]) /\ j <= l
         IN <<ids[j]>> \o Sorted(SubSeq(ids, 1, j - 1) \o SubSeq(ids, j + 1, Len(ids)), node_id)

\* ids[0:count]
Slice(ids, count) == SubSeq(ids, 1, IF count < Len(ids) THEN count ELSE Len(ids))

\* RoutingTable.find_closest with the distance to the local node as the key.
FindClosestToLocal(rt, node_id, count) ==
    Slice(Sorted(AllNodesIds(rt, 0), rt.identifier), count)

\* RoutingTable.find_closest(node_id, count) on the routing table rt.
FindClosest(rt, node_id, count) ==
    Slice(Sorted(AllNodesIds(rt, 0), node_id), count)

\* x << i
Shl(x, i) == x * Pow2(i)

\* a & b
RECURSIVE And(_, _)
And(a, b) ==
    IF a = 0 \/ b = 0 THEN 0
    ELSE (IF a % 2 = 1 /\ b % 2 = 1 THEN 1 ELSE 0) + 2 * And(a \div 2, b \div 2)

\* a | b
RECURSIVE Or(_, _)
Or(a, b) ==
    IF a = 0 /\ b = 0 THEN 0
    ELSE (IF a % 2 = 1 \/ b % 2 = 1 THEN 1 ELSE 0) + 2 * Or(a \div 2, b \div 2)

\* for i in range(i, bucket_index): v = v | (randint(0, 1) << i), where bit i
\* of draws is the value that the i-th call of randint returns.
RECURSIVE DrawLowBits(_, _, _, _)
DrawLowBits(v, draws, i, bucket_index) ==
    IF i >= bucket_index THEN v
    ELSE DrawLowBits(Or(v, Shl(Shr(draws, i) % 2, i)), draws, i + 1, bucket_index)

\* RoutingTable.get_random_node_id_within_bucket without the shift of the mask.
GetRandomNodeIdNoShift(rt, bucket_index, draws) ==
    IF bucket_index \notin 0 .. rt.id_length - 1
    THEN [value |-> None, raised |-> "Exception"]
    ELSE LET maximum == Pow2(rt.id_length) - 1
             v == And(rt.masks[bucket_index], maximum)
         IN [value |-> DrawLowBits(v, draws, 0, bucket_index), raised |-> "no"]

\* RoutingTable.get_random_node_id_within_bucket(bucket_index) on the routing
\* table rt, randint drawing the bits of draws.
GetRandomNodeIdWithinBucket(rt, bucket_index, draws) ==
    IF bucket_index \notin 0 .. rt.id_length - 1
    THEN [value |-> None, raised |-> "Exception"]
    ELSE LET maximum == Pow2(rt.id_length) - 1
             v == And(Shl(rt.masks[bucket_index], bucket_index), maximum)
         IN [value |-> DrawLowBits(v, draws, 0, bucket_index), raised |-> "no"]

\* No call was made on the routing table.
\* added: the identifiers given to add_node so far, in the order of the calls.
NoAnswer == [op |-> "none", node_id |-> None, added |-> <<>>, value |-> None]

\* ------------------------------------------------------------------ supervisor
\* Message.get_new_request_id without its increment.
GetNewRequestIdNoIncrement(reference) == reference

\* Message.get_new_request_id: the shared reference plus one.
GetNewRequestId(reference) == reference + 1

\* MessageSupervisor._add without its test of the request ID.
SupervisorAddOverwrite(msgs, record) ==
    [messages |-> {m \in msgs : m.request_id # record.request_id} \cup {record},
     raised |-> "no"]

\* MessageSupervisor._add: the record is [request_id, expiration, recipient,
\* replacement], for messages[request_id] = (expiration, [message, replacement]).
SupervisorAdd(msgs, record) ==
    IF \E m \in msgs : m.request_id = record.request_id
    THEN [messages |-> msgs, raised |-> "Exception"]
    ELSE [messages |-> msgs \cup {record}, raised |-> "no"]

\* MessageSupervisor._del
SupervisorDel(msgs, message_id) == {m \in msgs : m.request_id # message_id}

\* The test of the cleaner with "<=" for "<".
ExpiredOrDue(msgs, time) == {m \in msgs : 2 * m.expiration <= time}

\* The messages the cleaner collects: messages[id][0] < time(), the clock
\* counting half seconds.
Expired(msgs, time) == {m \in msgs : 2 * m.expiration < time}

\* The end of the loop of the cleaner without its break.
CleanerNeverBreaks(again) == "sleep"

\* The end of the loop of the cleaner: "if not again: break".
CleanerLoop(again) == IF again THEN "sleep" ELSE "exit"

\* MessageSupervisor.__init__: the lock is free, the cleaner thread is started
\* and sleeps.
NewSupervisor ==
    [lock |-> "free", continue |-> TRUE, pc |-> "sleep", to_remove |-> {}, again |-> TRUE]

\* Nothing happened in the supervisor.
NoLog == [added |-> {}, cancelled |-> {}, expired |-> {}, started |-> {}, sleeps |-> 0]

\* ------------------------------------------------------------------ node
\* Node.__init__: the listener waits for a message; the node is connected and
\* its lock is free; the supervisor of the node (ping_supervisor) and the
\* threads of its routing table (shared_continue) run.
NoMessageYet == [name |-> "none", request_id |-> 0, sender_id |-> None, args |-> None]

NewNode ==
    [pc |-> "get", message |-> NoMessageYet, connected |-> TRUE, lock |-> "free", raised |-> "no",
     ping_supervisor |-> TRUE, shared_continue |-> TRUE, handled |-> 0]

\* The routing table of the node, as a routing table of any identifier.
NodeTable(bs) == [NewTable(LocalId, IdLength, K) EXCEPT !.buckets = bs]

\* The end of a message processor in the listener: it returned True (the
\* listener waits for the next message), it returned False (the listener
\* breaks) or it raised (the thread of the listener ends). The "with" block of
\* the listener releases the lock in each case.
Returned(n, value, exception) ==
    [n EXCEPT !.lock = "free", !.raised = exception,
              !.pc = IF exception # "no" THEN "dead"
                     ELSE IF value THEN "get" ELSE "exit"]

\* ------------------------------------------------------------------ inserter thread
\* The inserter thread sleeps between two passes over the insertion pools.
Sleeping ==
    [pc |-> "sleep", bucket_id |-> 0,
     message |-> [request_id |-> 0, recipient |-> None, replacement |-> None]]

\* ------------------------------------------------------------------ construction
\* No node is being constructed.
NoBoot == [pc |-> "none", node_id |-> None, origin |-> None, shared_continue |-> TRUE,
          boostrap_message_id |-> None, raised |-> "no"]

\* ------------------------------------------------------------------ initial state
Init ==
    /\ buckets = [i \in BucketIds |-> <<>>]
    /\ pools = [i \in BucketIds |-> <<>>]
    /\ busy = [i \in BucketIds |-> FALSE]
    /\ messages = {}
    /\ callbacks = {}
    /\ request_id = 0
    /\ queues = Peers \cup {LocalId}
    /\ pings = {}
    /\ responses = {}
    /\ now = 0
    /\ pc = "idle"
    /\ msg = NoMessage
    /\ inserter_running = TRUE
    /\ raised = "no"
    /\ quiet = [rounds |-> 0, pending |-> 0]
    /\ cycle = [i \in BucketIds |-> [pings |-> 0, sole |-> TRUE]]
    /\ table = NewTable(LocalId, IdLength, K)
    /\ answer = NoAnswer
    /\ supervisor = NewSupervisor
    /\ log = NoLog
    /\ node = NewNode
    /\ inbox = <<>>
    /\ outbox = {}
    /\ delivered = <<>>
    /\ inserter = Sleeping
    /\ answered = {}
    /\ boot = NoBoot

\* ------------------------------------------------------------------ actions
\* The receive loop calls add_node(node_id, message) for a node named by a message.
CallAddNode(node_id) ==
    /\ pc = "idle"
    /\ LET a == AddNode(buckets, pools, node_id, TRUE) IN
        /\ buckets' = a.buckets
        /\ pools' = a.pools
        /\ raised' = a.raised
    /\ UNCHANGED <<busy, messages, callbacks, request_id, queues, pings, responses,
                   now, pc, msg, inserter_running>>

\* One pass of the inserter thread over the insertion pools.
InserterTick ==
    /\ inserter_running
    /\ LET st == InserterScan(ScanStart, 0) IN
        /\ st.request_id <= MaxRequests
        /\ buckets' = st.buckets
        /\ busy' = st.busy
        /\ messages' = st.messages
        /\ pings' = st.pings
        /\ request_id' = st.request_id
        /\ inserter_running' = (st.raised = "no")
    /\ UNCHANGED <<pools, callbacks, queues, responses, now, pc, msg, raised>>

\* One pass of the cleaner thread of the supervisor: the expired messages are
\* removed and one callback thread is started for each.
CleanerTick ==
    LET to_remove == {m \in messages : 2 * m.expiration < now} IN
    /\ to_remove # {}
    /\ messages' = messages \ to_remove
    /\ callbacks' = callbacks \cup to_remove
    /\ UNCHANGED <<buckets, pools, busy, request_id, queues, pings, responses, now,
                   pc, msg, inserter_running, raised>>

\* A callback thread runs __thread_ping_no_response.
RunCallback(cb) ==
    /\ cb \in callbacks
    /\ LET r == ThreadPingNoResponse(buckets, pools, busy, cb.recipient, cb.replacement) IN
        /\ buckets' = r.buckets
        /\ busy' = r.busy
    /\ callbacks' = callbacks \ {cb}
    /\ UNCHANGED <<pools, messages, request_id, queues, pings, responses, now, pc, msg,
                   inserter_running, raised>>

\* notify_ping_response, first statement: the receive loop takes a
\* PING_RESPONSE from its queue and deletes its request ID from the supervisor.
NotifyDelete(m) ==
    /\ pc = "idle"
    /\ m \in responses
    /\ responses' = responses \ {m}
    /\ LET tracked == {r \in messages : r.request_id = m.request_id} IN
        /\ messages' = messages \ tracked
        /\ msg' = [request_id |-> m.request_id, sender_id |-> m.sender_id,
                   tracked |-> tracked # {},
                   replacement |-> IF tracked = {} THEN None
                                   ELSE (CHOOSE r \in tracked : TRUE).replacement]
    /\ pc' = "set_most_recently_seen"
    /\ UNCHANGED <<buckets, pools, busy, callbacks, request_id, queues, pings, now,
                   inserter_running, raised>>

\* notify_ping_response, second statement: __set_most_recently_seen.
NotifySetMostRecentlySeen ==
    /\ pc = "set_most_recently_seen"
    /\ LET bucket_id == FindBucketIndex(msg.sender_id) IN
        buckets' = [buckets EXCEPT ![bucket_id] = SetMostRecentlySeen(@, msg.sender_id)]
    /\ pc' = "set_available"
    /\ UNCHANGED <<pools, busy, messages, callbacks, request_id, queues, pings, responses,
                   now, msg, inserter_running, raised>>

\* notify_ping_response, third statement: __set_bucket_insertion_pool_as_available.
NotifySetAvailable ==
    /\ pc = "set_available"
    /\ LET bucket_id == FindBucketIndex(msg.sender_id) IN
        busy' = [busy EXCEPT ![bucket_id] = FALSE]
    /\ pc' = "idle"
    /\ msg' = NoMessage
    /\ UNCHANGED <<buckets, pools, messages, callbacks, request_id, queues, pings,
                   responses, now, inserter_running, raised>>

\* A running remote node answers a PING.
RemoteRespond(p) ==
    /\ p \in pings
    /\ p.recipient \in queues
    /\ pings' = pings \ {p}
    /\ responses' = responses \cup {[request_id |-> p.request_id, sender_id |-> p.recipient]}
    /\ UNCHANGED <<buckets, pools, busy, messages, callbacks, request_id, queues, now,
                   pc, msg, inserter_running, raised>>

\* A remote node terminates: its queue leaves the queue manager.
RemoteTerminate(n) ==
    /\ n \in queues \ {LocalId}
    /\ Cardinality((Peers \cup {LocalId}) \ queues) < MaxTerminated
    /\ queues' = queues \ {n}
    /\ UNCHANGED <<buckets, pools, busy, messages, callbacks, request_id, pings,
                   responses, now, pc, msg, inserter_running, raised>>

\* Half a second passes.
Tick ==
    /\ now < MaxTime
    /\ now' = now + 1
    /\ UNCHANGED <<buckets, pools, busy, messages, callbacks, request_id, queues, pings,
                   responses, pc, msg, inserter_running, raised>>

Step ==
    \/ \E node_id \in Peers \cup {LocalId} : CallAddNode(node_id)
    \/ InserterTick
    \/ CleanerTick
    \/ \E cb \in callbacks : RunCallback(cb)
    \/ \E m \in responses : NotifyDelete(m)
    \/ NotifySetMostRecentlySeen
    \/ NotifySetAvailable
    \/ \E p \in pings : RemoteRespond(p)
    \/ \E n \in Peers : RemoteTerminate(n)
    \/ Tick

Next == Step /\ UNCHANGED <<quiet, cycle, tablevars, nodevars, supvars, racevars, bootvars>>

Spec == Init /\ [][Next]_vars

\* ------------------------------------------------------------------ history
\* The number of candidates waiting in the insertion pools ps.
RECURSIVE Waiting(_, _)
Waiting(ps, i) == IF i >= IdLength THEN 0 ELSE Len(ps[i]) + Waiting(ps, i + 1)

\* Nothing is outstanding: no pool is busy, no PING is supervised or expired,
\* no PING and no PING_RESPONSE is in a queue or being processed.
Settled ==
    /\ \A i \in BucketIds : ~busy[i]
    /\ messages = {} /\ callbacks = {} /\ pings = {} /\ responses = {}
    /\ pc = "idle"

\* A candidate is offered: the count of quiet passes starts again, and a pool
\* that receives a candidate starts a cycle (if it was empty) or holds more
\* than one candidate (if it was not).
TracedCallAddNode(node_id) ==
    /\ CallAddNode(node_id)
    /\ quiet' = [rounds |-> 0, pending |-> Waiting(pools', 0)]
    /\ cycle' = [i \in BucketIds |->
                    IF pools'[i] = pools[i] THEN cycle[i]
                    ELSE IF pools[i] = <<>> THEN [pings |-> 0, sole |-> TRUE]
                    ELSE [cycle[i] EXCEPT !.sole = FALSE]]

\* A pass of the inserter: a pass that replaces a node without queue is a
\* timeout; a pass made when nothing was outstanding is a quiet pass (the
\* passes are counted up to K + pending, the number the pools need to drain).
TracedInserterTick ==
    /\ InserterTick
    /\ quiet' = IF buckets' # buckets THEN [rounds |-> 0, pending |-> Waiting(pools', 0)]
                ELSE IF Settled /\ quiet.rounds < K + quiet.pending
                     THEN [quiet EXCEPT !.rounds = @ + 1]
                ELSE quiet
    /\ cycle' = [i \in BucketIds |->
                    [cycle[i] EXCEPT !.pings =
                        @ + Cardinality({p \in pings' \ pings : FindBucketIndex(p.recipient) = i})]]

\* A PING times out.
TracedTimeout ==
    /\ CleanerTick \/ \E cb \in callbacks : RunCallback(cb)
    /\ quiet' = [rounds |-> 0, pending |-> Waiting(pools', 0)]
    /\ UNCHANGED cycle

TracedOther ==
    /\ \/ \E m \in responses : NotifyDelete(m)
       \/ NotifySetMostRecentlySeen
       \/ NotifySetAvailable
       \/ \E p \in pings : RemoteRespond(p)
       \/ \E n \in Peers : RemoteTerminate(n)
       \/ Tick
    /\ UNCHANGED <<quiet, cycle>>

NextTraced ==
    /\ \/ \E node_id \in Peers \cup {LocalId} : TracedCallAddNode(node_id)
       \/ TracedInserterTick
       \/ TracedTimeout
       \/ TracedOther
    /\ UNCHANGED <<tablevars, nodevars, supvars, racevars, bootvars>>

\* The routing table with the history of its pool cycles.
Traced == Init /\ [][NextTraced]_vars

\* ------------------------------------------------------------------ routing tables
\* The routing table of the node 5 with identifiers of 8 bits and buckets of 3.
Scenario == NewTable(5, 8, 3)

\* The node identifiers of IdLength bits.
NodeIds == 0 .. Pow2(IdLength) - 1

\* The node identifiers that are added to a routing table.
Offered == {4, 6, 7}

InitTables ==
    /\ buckets = [i \in BucketIds |-> <<>>]
    /\ pools = [i \in BucketIds |-> <<>>]
    /\ busy = [i \in BucketIds |-> FALSE]
    /\ messages = {}
    /\ callbacks = {}
    /\ request_id = 0
    /\ queues = Peers \cup {LocalId}
    /\ pings = {}
    /\ responses = {}
    /\ now = 0
    /\ pc = "idle"
    /\ msg = NoMessage
    /\ inserter_running = TRUE
    /\ raised = "no"
    /\ quiet = [rounds |-> 0, pending |-> 0]
    /\ cycle = [i \in BucketIds |-> [pings |-> 0, sole |-> TRUE]]
    /\ table \in {NewTable(identifier, IdLength, K) : identifier \in NodeIds} \cup {Scenario}
    /\ answer = NoAnswer
    /\ supervisor = NewSupervisor
    /\ log = NoLog
    /\ node = NewNode
    /\ inbox = <<>>
    /\ outbox = {}
    /\ delivered = <<>>
    /\ inserter = Sleeping
    /\ answered = {}
    /\ boot = NoBoot

\* add_node(node_id) is called on the routing table.
CallTableAddNode(node_id) ==
    /\ Len(answer.added) < MaxNodes
    /\ LET a == TableAddNode(table, node_id) IN
        /\ table' = a.table
        /\ answer' = [op |-> "add_node", node_id |-> node_id,
                      added |-> Append(answer.added, node_id), value |-> a.raised]

\* The bucket index of identifier is looked up (as add_node does first).
CallFindBucketIndex(identifier) ==
    /\ answer' = [answer EXCEPT !.op = "find_bucket_index", !.node_id = identifier,
                                !.value = FindBucketIndexIn(table, identifier, 0)]
    /\ UNCHANGED table

\* find_closest(node_id, count) is called on the routing table.
CallFindClosest(node_id, count) ==
    /\ answer' = [answer EXCEPT !.op = "find_closest", !.node_id = node_id,
                                !.value = <<count, FindClosest(table, node_id, count)>>]
    /\ UNCHANGED table

\* get_random_node_id_within_bucket(bucket_index) is called on the routing
\* table.
CallGetRandomNodeIdWithinBucket(bucket_index, draws) ==
    /\ LET r == GetRandomNodeIdWithinBucket(table, bucket_index, draws) IN
       answer' = [answer EXCEPT !.op = "get_random_node_id_within_bucket",
                                !.node_id = None,
                                !.value = [bucket_index |-> bucket_index, draws |-> draws,
                                           value |-> r.value, raised |-> r.raised]]
    /\ UNCHANGED table

NextTables ==
    /\ \/ \E node_id \in Offered : CallTableAddNode(node_id)
       \/ CallTableAddNode(table.identifier)
       \/ \E identifier \in NodeIds : CallFindBucketIndex(identifier)
       \/ \E node_id \in NodeIds, count \in 1 .. Scenario.k : CallFindClosest(node_id, count)
       \/ \E bucket_index \in -1 .. IdLength, draws \in 0 .. Pow2(IdLength - 1) - 1 :
             CallGetRandomNodeIdWithinBucket(bucket_index, draws)
    /\ UNCHANGED <<core, quiet, cycle, supvars, nodevars, racevars, bootvars>>

\* Routing tables of every identifier, and the calls that read them.
Tables == InitTables /\ [][NextTables]_vars

\* ------------------------------------------------------------------ supervisor threads
\* The nodes that are pinged and the nodes that wait for their place.
Pinged == {0, 1}
Candidates == {2}

\* The caller puts a message under the responsibility of the supervisor.
Add(rid, expiration, recipient, replacement) ==
    /\ supervisor.lock = "free"
    /\ LET a == SupervisorAdd(messages, [request_id |-> rid, expiration |-> expiration,
                                          recipient |-> recipient, replacement |-> replacement])
       IN /\ messages' = a.messages
          /\ raised' = a.raised
    /\ UNCHANGED supervisor

\* Ping.add as __ping_for_replacement calls it: a new request ID, and
\* ceil(time()) + config.message_ping_node_timeout.
AddPing(recipient, replacement) ==
    /\ GetNewRequestId(request_id) <= MaxRequests
    /\ request_id' = GetNewRequestId(request_id)
    /\ Add(request_id', CeilTime + PingTimeout, recipient, replacement)
    /\ UNCHANGED <<buckets, pools, busy, callbacks, queues, pings, responses, now, pc, msg,
                   inserter_running, quiet, cycle, tablevars, nodevars, racevars, bootvars>>

\* Ping.add called with any request ID and any expiration date.
AddAny(rid, expiration, recipient, replacement) ==
    /\ Add(rid, expiration, recipient, replacement)
    /\ UNCHANGED <<buckets, pools, busy, callbacks, request_id, queues, pings, responses,
                   now, pc, msg, inserter_running, quiet, cycle, tablevars, nodevars, racevars, bootvars>>

\* Ping.delete(message_id), as notify_ping_response calls it.
Delete(message_id) ==
    /\ supervisor.lock = "free"
    /\ messages' = SupervisorDel(messages, message_id)
    /\ UNCHANGED <<buckets, pools, busy, callbacks, request_id, queues, pings, responses,
                   now, pc, msg, inserter_running, raised, quiet, cycle, tablevars, nodevars, supervisor, racevars, bootvars>>

\* MessageSupervisor.stop
Stop ==
    /\ supervisor.lock = "free"
    /\ supervisor.continue
    /\ supervisor' = [supervisor EXCEPT !.continue = FALSE]
    /\ UNCHANGED <<core, quiet, cycle, tablevars, nodevars, racevars, bootvars>>

\* The cleaner: sleep(clean_period) returns.
CleanerWake ==
    /\ supervisor.pc = "sleep"
    /\ supervisor' = [supervisor EXCEPT !.pc = "collect"]
    /\ UNCHANGED <<core, quiet, cycle, tablevars, nodevars, racevars, bootvars>>

\* The cleaner takes the lock and collects the expired messages.
CleanerCollect ==
    /\ supervisor.pc = "collect"
    /\ supervisor.lock = "free"
    /\ supervisor' = [supervisor EXCEPT !.lock = "cleaner", !.pc = "remove",
                                        !.to_remove = Expired(messages, now)]
    /\ UNCHANGED <<core, quiet, cycle, tablevars, nodevars, racevars, bootvars>>

\* The cleaner, holding the lock, deletes one collected message and starts the
\* thread of its callback.
CleanerRemove(m) ==
    /\ supervisor.pc = "remove"
    /\ m \in supervisor.to_remove
    /\ messages' = messages \ {m}
    /\ callbacks' = callbacks \cup {m}
    /\ supervisor' = [supervisor EXCEPT !.to_remove = @ \ {m}]
    /\ UNCHANGED <<buckets, pools, busy, request_id, queues, pings, responses, now, pc, msg,
                   inserter_running, raised, quiet, cycle, tablevars, nodevars, racevars, bootvars>>

\* The cleaner leaves the "with self.__lock" block.
CleanerRelease ==
    /\ supervisor.pc = "remove"
    /\ supervisor.to_remove = {}
    /\ supervisor' = [supervisor EXCEPT !.lock = "free", !.pc = "check"]
    /\ UNCHANGED <<core, quiet, cycle, tablevars, nodevars, racevars, bootvars>>

\* The cleaner reads __continue under the lock: "again = self.__continue".
CleanerCheck ==
    /\ supervisor.pc = "check"
    /\ supervisor.lock = "free"
    /\ supervisor' = [supervisor EXCEPT !.pc = "loop", !.again = supervisor.continue]
    /\ UNCHANGED <<core, quiet, cycle, tablevars, nodevars, racevars, bootvars>>

\* The cleaner breaks, or starts to sleep again.
CleanerBranch ==
    /\ supervisor.pc = "loop"
    /\ supervisor' = [supervisor EXCEPT !.pc = CleanerLoop(supervisor.again)]
    /\ UNCHANGED <<core, quiet, cycle, tablevars, nodevars, racevars, bootvars>>

\* The thread of a callback runs.
CallbackThread(cb) ==
    /\ RunCallback(cb)
    /\ UNCHANGED <<quiet, cycle, tablevars, nodevars, supervisor, racevars, bootvars>>

\* Half a second passes.
ClockTick ==
    /\ Tick
    /\ UNCHANGED <<quiet, cycle, tablevars, nodevars, supervisor, racevars, bootvars>>

\* The supervisor under any calls.
NextSupervisor ==
    /\ \/ \E rid \in 1 .. MaxRequests, expiration \in 0 .. PingTimeout,
             recipient \in {0}, replacement \in Candidates :
               AddAny(rid, expiration, recipient, replacement)
       \/ \E message_id \in 1 .. MaxRequests : Delete(message_id)
       \/ Stop
       \/ CleanerWake
       \/ CleanerCollect
       \/ \E m \in messages : CleanerRemove(m)
       \/ CleanerRelease
       \/ CleanerCheck
       \/ CleanerBranch
       \/ \E cb \in callbacks : CallbackThread(cb)
       \/ ClockTick
    /\ UNCHANGED log

Supervisor == Init /\ [][NextSupervisor]_vars

\* The history of the supervisor: the records added, the request IDs deleted
\* while supervised (cancelled), the request IDs removed by the cleaner
\* (expired), the callback threads started (with the time of the start), and the
\* sleeps the cleaner started after stop (counted up to 2).
LogStep ==
    log' = [added |-> log.added \cup (messages' \ messages),
            cancelled |-> log.cancelled \cup
                IF supervisor.lock = "free"
                THEN {m.request_id : m \in messages \ messages'} ELSE {},
            expired |-> log.expired \cup
                IF supervisor.lock = "cleaner"
                THEN {m.request_id : m \in messages \ messages'} ELSE {},
            started |-> log.started \cup
                {[record |-> m, time |-> now] : m \in callbacks' \ callbacks},
            sleeps |-> IF /\ supervisor.pc = "loop" /\ supervisor'.pc = "sleep"
                          /\ ~supervisor.continue /\ log.sleeps < 2
                       THEN log.sleeps + 1 ELSE log.sleeps]

\* The supervisor of the PING messages under the calls of the routing table.
NextPings ==
    /\ \/ \E recipient \in Pinged, replacement \in Candidates : AddPing(recipient, replacement)
       \/ \E message_id \in 1 .. MaxRequests : Delete(message_id)
       \/ Stop
       \/ CleanerWake
       \/ CleanerCollect
       \/ \E m \in messages : CleanerRemove(m)
       \/ CleanerRelease
       \/ CleanerCheck
       \/ CleanerBranch
       \/ \E cb \in callbacks : CallbackThread(cb)
       \/ ClockTick
    /\ LogStep

Pings == Init /\ [][NextPings]_vars

\* The steps of the cleaner thread, which runs as long as it did not break.
CleanerThread ==
    /\ \/ CleanerWake
       \/ CleanerCollect
       \/ \E m \in messages : CleanerRemove(m)
       \/ CleanerRelease
       \/ CleanerCheck
       \/ CleanerBranch
    /\ LogStep

FairPings == Pings /\ WF_vars(CleanerThread)

\* ------------------------------------------------------------------ node threads
MessageNames ==
    {"TERMINATE_NODE", "FIND_NODE", "FIND_NODE_RESPONSE", "PING_NODE", "PING_NODE_RESPONSE",
     "DISCONNECT_NODE", "RECONNECT_NODE"}

\* The arguments of a message: the target of a FIND_NODE, the node IDs of a
\* FIND_NODE_RESPONSE.
MessageArgs(name) ==
    IF name = "FIND_NODE" THEN {1}
    ELSE IF name = "FIND_NODE_RESPONSE" THEN {<<>>, <<1>>, <<LocalId, 1>>, <<1, LocalId>>}
    ELSE {None}

\* The senders of a message: a remote node, or nobody for the administrative
\* messages.
MessageSenders(name) ==
    IF name \in {"TERMINATE_NODE", "DISCONNECT_NODE", "RECONNECT_NODE"} THEN {None} ELSE {0}

\* Message.send: a message is put in the input queue of the node.
Send(name, sender_id, args) ==
    /\ LocalId \in queues
    /\ GetNewRequestId(request_id) <= MaxMessages
    /\ request_id' = GetNewRequestId(request_id)
    /\ LET m == [name |-> name, request_id |-> request_id', sender_id |-> sender_id,
                 args |-> args]
       IN inbox' = Append(inbox, m) /\ delivered' = Append(delivered, m)
    /\ UNCHANGED <<buckets, pools, busy, messages, callbacks, queues, pings, responses, now,
                   pc, msg, inserter_running, raised, quiet, cycle, tablevars, supvars,
                   node, outbox, racevars, bootvars>>

\* The node of the sender terminates: its queue leaves the queue manager.
SenderTerminates(n) ==
    /\ RemoteTerminate(n)
    /\ UNCHANGED <<quiet, cycle, tablevars, supvars, nodevars, racevars, bootvars>>

\* The listener takes a message from the input queue.
ListenerGet ==
    /\ node.pc = "get"
    /\ inbox # <<>>
    /\ node' = [node EXCEPT !.pc = "dispatch", !.message = Head(inbox), !.handled = @ + 1]
    /\ inbox' = Tail(inbox)
    /\ UNCHANGED <<core, quiet, cycle, tablevars, supvars, outbox, delivered, racevars, bootvars>>

\* The listener takes __connected_lock and calls the processor of the message,
\* or drops the message if the node is not connected.
ListenerDispatch ==
    /\ node.pc = "dispatch"
    /\ node.lock = "free"
    /\ node' = IF \/ node.connected
                  \/ node.message.name \in {"TERMINATE_NODE", "RECONNECT_NODE"}
               THEN [node EXCEPT !.lock = "listener", !.pc = "process"]
               ELSE [node EXCEPT !.pc = "get"]
    /\ UNCHANGED <<core, quiet, cycle, tablevars, supvars, inbox, outbox, delivered, racevars, bootvars>>

Processing(name) == node.pc = "process" /\ node.message.name = name

\* Node.__process_terminate_node
ProcessTerminateNode ==
    /\ Processing("TERMINATE_NODE")
    /\ queues' = queues \ {LocalId}
    /\ node' = Returned([node EXCEPT !.ping_supervisor = FALSE], FALSE, "no")
    /\ UNCHANGED <<buckets, pools, busy, messages, callbacks, request_id, pings, responses,
                   now, pc, msg, inserter_running, raised, quiet, cycle, tablevars, supvars,
                   inbox, outbox, delivered, racevars, bootvars>>

\* "with self.__connected_lock: self.__connected = value" in a processor: the
\* lock is not reentrant, the thread that holds it waits for it for ever.
SetConnected(n, value) ==
    IF n.lock = "free"
    THEN Returned([n EXCEPT !.connected = value], TRUE, "no")
    ELSE [n EXCEPT !.pc = "blocked"]

\* Node.__process_disconnect_node
ProcessDisconnectNode ==
    /\ Processing("DISCONNECT_NODE")
    /\ node' = SetConnected(node, FALSE)
    /\ UNCHANGED <<core, quiet, cycle, tablevars, supvars, inbox, outbox, delivered, racevars, bootvars>>

\* Node.__process_reconnect_node
ProcessReconnectNode ==
    /\ Processing("RECONNECT_NODE")
    /\ node' = SetConnected(node, TRUE)
    /\ UNCHANGED <<core, quiet, cycle, tablevars, supvars, inbox, outbox, delivered, racevars, bootvars>>

\* Node.__add_node_id_to_routing_table(node_id): add_node returns None, and
\* "added, already_in, bucket_idx = None" raises TypeError; add_node itself
\* raises for the local node.
AddNodeIdToRoutingTable(bs, ps, node_id) ==
    LET a == AddNode(bs, ps, node_id, FALSE)
    IN [buckets |-> a.buckets, raised |-> IF a.raised # "no" THEN a.raised ELSE "TypeError"]

\* A response is sent to the sender of the message being processed, then the
\* sender is added to the routing table. Message.send raises AttributeError
\* if the sender has no queue.
Respond(name, args) ==
    IF node.message.sender_id \notin queues
    THEN /\ node' = Returned(node, TRUE, "AttributeError")
         /\ UNCHANGED <<buckets, outbox>>
    ELSE LET a == AddNodeIdToRoutingTable(buckets, pools, node.message.sender_id) IN
         /\ outbox' = outbox \cup {[name |-> name, request_id |-> node.message.request_id,
                                     sender_id |-> LocalId,
                                     recipient |-> node.message.sender_id, args |-> args]}
         /\ buckets' = a.buckets
         /\ node' = Returned(node, TRUE, a.raised)

\* Node.__process_find_node
ProcessFindNode ==
    /\ Processing("FIND_NODE")
    /\ Respond("FIND_NODE_RESPONSE",
               FindClosest(NodeTable(buckets), node.message.args, IdLength))
    /\ UNCHANGED <<pools, busy, messages, callbacks, request_id, queues, pings, responses,
                   now, pc, msg, inserter_running, raised, quiet, cycle, tablevars, supvars,
                   inbox, delivered, racevars, bootvars>>

\* Node.__process_ping_node: "is_node_running(...) is None" is never true.
ProcessPingNode ==
    /\ Processing("PING_NODE")
    /\ Respond("PING_NODE_RESPONSE", None)
    /\ UNCHANGED <<pools, busy, messages, callbacks, request_id, queues, pings, responses,
                   now, pc, msg, inserter_running, raised, quiet, cycle, tablevars, supvars,
                   inbox, delivered, racevars, bootvars>>

\* Node.__process_find_node_response: the first node ID is added to the routing
\* table, and the result of add_node cannot be unpacked.
ProcessFindNodeResponse ==
    /\ Processing("FIND_NODE_RESPONSE")
    /\ IF node.message.args = <<>>
       THEN node' = Returned(node, TRUE, "no") /\ UNCHANGED buckets
       ELSE LET a == AddNodeIdToRoutingTable(buckets, pools, Head(node.message.args)) IN
            /\ buckets' = a.buckets
            /\ node' = Returned(node, TRUE, a.raised)
    /\ UNCHANGED <<pools, busy, messages, callbacks, request_id, queues, pings, responses,
                   now, pc, msg, inserter_running, raised, quiet, cycle, tablevars, supvars,
                   inbox, outbox, delivered, racevars, bootvars>>

\* Node.__process_ping_node_response: the supervisor of the node supervises
\* nothing, and RoutingTable has no attribute set_least_recently_seen.
ProcessPingNodeResponse ==
    /\ Processing("PING_NODE_RESPONSE")
    /\ node' = Returned(node, TRUE, "AttributeError")
    /\ UNCHANGED <<core, quiet, cycle, tablevars, supvars, inbox, outbox, delivered, racevars, bootvars>>

\* The steps of the listener thread.
Listener ==
    \/ ListenerGet
    \/ ListenerDispatch
    \/ ProcessTerminateNode
    \/ ProcessDisconnectNode
    \/ ProcessReconnectNode
    \/ ProcessFindNode
    \/ ProcessFindNodeResponse
    \/ ProcessPingNode
    \/ ProcessPingNodeResponse

NextNode ==
    \/ \E name \in MessageNames, sender_id \in {None, 0} :
          \E args \in MessageArgs(name) :
             sender_id \in MessageSenders(name) /\ Send(name, sender_id, args)
    \/ SenderTerminates(0)
    \/ Listener

\* The node: its listener thread and the messages it receives.
NodeSpec == Init /\ [][NextNode]_vars

FairNodeSpec == NodeSpec /\ WF_vars(Listener)

\* ------------------------------------------------------------------ inserter steps
\* The threads of the routing table, the inserter thread being taken
\* statement by statement: between message.send() and
\* self.__ping_supervisor.add(...) of __ping_for_replacement the threads that
\* do not need __lock_buckets run.

\* The nodes that are offered to the routing table: those of bucket 2.
Neighbours == {0, 1, 2}

\* __lock_buckets is not held by the inserter thread.
LockBucketsFree == inserter.pc \in {"sleep", "dead"}

\* The inserter thread wakes up and takes __lock_buckets.
InserterWake ==
    /\ inserter.pc = "sleep"
    /\ inserter' = [inserter EXCEPT !.pc = "scan", !.bucket_id = 0]
    /\ UNCHANGED <<core, quiet, cycle, tablevars, supvars, nodevars, answered, bootvars>>

\* The body of the for loop of __thread_inserter for one bucket, up to
\* message.send() in __ping_for_replacement.
InserterVisit ==
    /\ inserter.pc = "scan"
    /\ inserter.bucket_id < IdLength
    /\ LET bucket_id == inserter.bucket_id IN
       IF busy[bucket_id] \/ Len(pools[bucket_id]) = 0
       THEN /\ inserter' = [inserter EXCEPT !.bucket_id = bucket_id + 1]
            /\ UNCHANGED <<buckets, busy, request_id, pings, inserter_running>>
       ELSE LET pool == pools[bucket_id]
                node_id == pool[Len(pool)]
                lrs == GetLeastRecentlySeen(buckets[bucket_id])
                rid == GetNewRequestId(request_id)
            IN  /\ rid <= MaxRequests
                /\ request_id' = rid
                /\ IF lrs \notin queues
                   THEN LET r == ThreadPingNoResponse(buckets, pools,
                                     [busy EXCEPT ![bucket_id] = TRUE], lrs, node_id)
                        IN  /\ buckets' = r.buckets
                            /\ busy' = r.busy
                            /\ inserter_running' = (r.raised = "no")
                            /\ inserter' = IF r.raised = "no"
                                           THEN [inserter EXCEPT !.bucket_id = bucket_id + 1]
                                           ELSE [inserter EXCEPT !.pc = "dead"]
                            /\ UNCHANGED pings
                   ELSE /\ busy' = [busy EXCEPT ![bucket_id] = TRUE]
                        /\ pings' = pings \cup {[request_id |-> rid, recipient |-> lrs]}
                        /\ inserter' = [inserter EXCEPT
                                           !.pc = "sent",
                                           !.message = [request_id |-> rid, recipient |-> lrs,
                                                        replacement |-> node_id]]
                        /\ UNCHANGED <<buckets, inserter_running>>
    /\ UNCHANGED <<pools, messages, callbacks, queues, responses, now, pc, msg, raised,
                   quiet, cycle, tablevars, supvars, nodevars, answered, bootvars>>

\* self.__ping_supervisor.add(message, ceil(time()) + timeout, replacement),
\* the last statement of __ping_for_replacement.
InserterAdd ==
    /\ inserter.pc = "sent"
    /\ messages' = messages \cup {[request_id |-> inserter.message.request_id,
                                     expiration |-> CeilTime + PingTimeout,
                                     recipient |-> inserter.message.recipient,
                                     replacement |-> inserter.message.replacement]}
    /\ inserter' = [Sleeping EXCEPT !.pc = "scan", !.bucket_id = inserter.bucket_id + 1]
    /\ UNCHANGED <<buckets, pools, busy, callbacks, request_id, queues, pings, responses,
                   now, pc, msg, inserter_running, raised,
                   quiet, cycle, tablevars, supvars, nodevars, answered, bootvars>>

\* The end of the pass: the inserter releases __lock_buckets and sleeps.
InserterSleep ==
    /\ inserter.pc = "scan"
    /\ inserter.bucket_id = IdLength
    /\ inserter' = Sleeping
    /\ UNCHANGED <<core, quiet, cycle, tablevars, supvars, nodevars, answered, bootvars>>

\* The steps of the other threads. add_node, __set_most_recently_seen and
\* __thread_ping_no_response take __lock_buckets; the supervisor, the queues
\* and __set_bucket_insertion_pool_as_available do not.
Locked(A) ==
    /\ LockBucketsFree
    /\ A
    /\ UNCHANGED <<quiet, cycle, tablevars, supvars, nodevars, racevars, bootvars>>

Unlocked(A) ==
    /\ A
    /\ UNCHANGED <<quiet, cycle, tablevars, supvars, nodevars, racevars, bootvars>>

\* The PING of m is supervised and has not expired, or is sent and about to
\* be supervised.
NotExpired(m) ==
    \/ \E r \in messages : r.request_id = m.request_id /\ now <= 2 * r.expiration
    \/ inserter.pc = "sent" /\ inserter.message.request_id = m.request_id

\* notify_ping_response, first statement: self.__ping_supervisor.delete.
ReceiveResponse(m) ==
    /\ NotifyDelete(m)
    /\ answered' = IF NotExpired(m) THEN answered \cup {m.request_id} ELSE answered
    /\ UNCHANGED <<quiet, cycle, tablevars, supvars, nodevars, inserter, bootvars>>

NextRace ==
    \/ \E node_id \in Neighbours : Locked(CallAddNode(node_id))
    \/ InserterWake
    \/ InserterVisit
    \/ InserterAdd
    \/ InserterSleep
    \/ Unlocked(CleanerTick)
    \/ \E cb \in callbacks : Locked(RunCallback(cb))
    \/ \E m \in responses : ReceiveResponse(m)
    \/ Locked(NotifySetMostRecentlySeen)
    \/ Unlocked(NotifySetAvailable)
    \/ \E p \in pings : Unlocked(RemoteRespond(p))
    \/ Unlocked(Tick)

\* The routing table with its inserter thread taken statement by statement.
Race == Init /\ [][NextRace]_vars

\* ------------------------------------------------------------------ release of the pools
\* The steps of the receive loop in notify_ping_response.
ReceiveLoop ==
    \/ \E m \in responses : NotifyDelete(m)
    \/ NotifySetMostRecentlySeen
    \/ NotifySetAvailable

\* A step of one thread of the routing table, the rest of the state left alone.
Thread(A) == A /\ UNCHANGED <<quiet, cycle, tablevars, nodevars, supvars, racevars, bootvars>>

\* The routing table offered the nodes of bucket 2, one of which may
\* terminate.
NextRelease ==
    \/ \E node_id \in Neighbours : Thread(CallAddNode(node_id))
    \/ Thread(InserterTick)
    \/ Thread(CleanerTick)
    \/ Thread(\E cb \in callbacks : RunCallback(cb))
    \/ Thread(ReceiveLoop)
    \/ \E p \in pings : Thread(RemoteRespond(p))
    \/ \E n \in Neighbours : Thread(RemoteTerminate(n))
    \/ Thread(Tick)

Release == Init /\ [][NextRelease]_vars

\* The same with threads that run: the cleaner of the supervisor wakes up
\* every period, a started callback thread runs, the receive loop goes on
\* with the message it took, and time passes.
FairRelease ==
    /\ Release
    /\ WF_vars(Thread(CleanerTick))
    /\ WF_vars(Thread(\E cb \in callbacks : RunCallback(cb)))
    /\ WF_vars(Thread(ReceiveLoop))
    /\ WF_vars(Thread(Tick))

\* ------------------------------------------------------------------ constructor
\* Node(node_id, config, origin), statement by statement. The specifications
\* above take the node once it is constructed, its inserter running beside
\* the other threads.

\* Node.__init__ after "self.__routing_table = RoutingTable(node_id, config)":
\* the queue of the node is registered, the origin is added to the routing
\* table and the FIND_NODE of the bootstrap is sent to the origin.
Bootstrap(b, rt, qs, reference, sent) ==
    LET registered == qs \cup {b.node_id}
        done == [boot |-> b, table |-> rt, queues |-> registered,
                 request_id |-> reference, outbox |-> sent]
    IN  IF b.origin = None
        THEN [done EXCEPT !.boot.pc = "constructed"]
        ELSE LET a == TableAddNode(rt, b.origin)
                 rid == GetNewRequestId(reference)
             IN  IF a.raised # "no"
                 THEN [done EXCEPT !.boot.pc = "raised", !.boot.raised = a.raised]
                 ELSE IF b.origin \notin registered
                 THEN [done EXCEPT !.boot.pc = "raised", !.boot.raised = "AttributeError",
                                   !.table = a.table, !.request_id = rid]
                 ELSE [done EXCEPT !.boot.pc = "constructed",
                                   !.boot.boostrap_message_id = rid,
                                   !.table = a.table, !.request_id = rid,
                                   !.outbox = sent \cup
                                       {[name |-> "FIND_NODE", request_id |-> rid,
                                         sender_id |-> b.node_id, recipient |-> b.origin,
                                         args |-> b.node_id]}]

\* Node(node_id, config, origin) is called.
NodeInit(node_id, origin) ==
    /\ boot.pc = "none"
    /\ boot' = [boot EXCEPT !.pc = "routing_table", !.node_id = node_id, !.origin = origin]
    /\ UNCHANGED <<core, quiet, cycle, tablevars, supvars, nodevars, racevars>>

\* RoutingTable.__init__ up to __start_threads, which evaluates
\* self.__thread_inserter() as the first argument of Thread.
RoutingTableInit ==
    /\ boot.pc = "routing_table"
    /\ table' = NewTable(boot.node_id, IdLength, K)
    /\ boot' = [boot EXCEPT !.pc = "scan"]
    /\ UNCHANGED <<core, quiet, cycle, answer, supvars, nodevars, racevars>>

\* __thread_inserter called by the constructor: one pass over the insertion
\* pools, which are empty.
StartThreadsScan ==
    /\ boot.pc = "scan"
    /\ boot' = [boot EXCEPT !.pc = "sleep"]
    /\ UNCHANGED <<core, quiet, cycle, tablevars, supvars, nodevars, racevars>>

\* sleep(self.__config.inserter_scanner_period)
StartThreadsSleep ==
    /\ boot.pc = "sleep"
    /\ boot' = [boot EXCEPT !.pc = "check"]
    /\ UNCHANGED <<core, quiet, cycle, tablevars, supvars, nodevars, racevars>>

\* "if not self.__shared_continue: break": the loop is left, and the
\* constructors return, only once stop() was called on the routing table.
StartThreadsCheck ==
    /\ boot.pc = "check"
    /\ LET r == IF boot.shared_continue
                THEN [boot |-> [boot EXCEPT !.pc = "scan"], table |-> table,
                      queues |-> queues, request_id |-> request_id, outbox |-> outbox]
                ELSE Bootstrap(boot, table, queues, request_id, outbox)
       IN  /\ boot' = r.boot
           /\ table' = r.table
           /\ queues' = r.queues
           /\ request_id' = r.request_id
           /\ outbox' = r.outbox
    /\ UNCHANGED <<buckets, pools, busy, messages, callbacks, pings, responses, now, pc, msg,
                   inserter_running, raised, quiet, cycle, answer, supvars,
                   node, inbox, delivered, racevars>>

\* The thread that constructs the node.
Constructor ==
    \/ RoutingTableInit
    \/ StartThreadsScan
    \/ StartThreadsSleep
    \/ StartThreadsCheck

NextBoot ==
    \/ \E node_id \in NodeIds, origin \in NodeIds \cup {None} : NodeInit(node_id, origin)
    \/ Constructor

\* The construction of a node of any identifier, with or without origin.
Boot == Init /\ [][NextBoot]_vars

FairBoot == Boot /\ WF_vars(Constructor)

\* ------------------------------------------------------------------ properties
\* The position of the most significant set bit of x, for 0 < x < 2^IdLength.
HighestBit(x) == CHOOSE i \in BucketIds : Pow2(i) <= x /\ x < Pow2(i + 1)

\* The supervised PING messages whose pinged node belongs to bucket i.
Outstanding(i) == {m \in messages : FindBucketIndex(m.recipient) = i}

\* The members of insertion pool i.
PoolIds(i) == {pools[i][j] : j \in 1 .. Len(pools[i])}

\* C1: for each bucket, at most one PING is outstanding (sent, neither
\* answered nor expired) whose pinged node belongs to the bucket.
OnePingPerBucket == \A i \in BucketIds : Cardinality(Outstanding(i)) <= 1

\* C2: every bucket holds at most K entries.
BucketSizeBound == \A i \in BucketIds : Len(buckets[i]) <= K

\* A full bucket that was offered one more candidate, the candidate having
\* replaced a node that did not answer.
BucketSizeWitness ==
    \E i \in BucketIds : Len(buckets[i]) = K /\ PoolIds(i) \cap Ids(buckets[i]) # {}

\* C3: every ID stored in bucket i has bucket index i, which is the position of
\* the most significant set bit of (ID xor local ID).
BucketIndexInvariant ==
    \A i \in BucketIds : \A id \in Ids(buckets[i]) :
        /\ id # LocalId
        /\ FindBucketIndex(id) = i
        /\ HighestBit(Xor(id, LocalId)) = i

\* Two buckets hold nodes, one of them a node inserted by a replacement.
BucketIndexWitness ==
    \E i, j \in BucketIds :
        /\ i # j
        /\ buckets[i] # <<>>
        /\ PoolIds(j) \cap Ids(buckets[j]) # {}

\* C4: the local ID is in no bucket and in no insertion pool, and
\* add_node(local ID) raises its exception and changes no bucket, no pool and
\* no busy flag.
LocalIdNotStored ==
    \A i \in BucketIds : LocalId \notin Ids(buckets[i]) /\ LocalId \notin PoolIds(i)

LocalIdRejected ==
    /\ []LocalIdNotStored
    /\ [][CallAddNode(LocalId) =>
            raised' = "Exception" /\ UNCHANGED <<buckets, pools, busy>>]_vars

\* add_node(local ID) was called on a routing table that holds nodes.
LocalIdWitness ==
    /\ raised = "Exception"
    /\ \E i \in BucketIds : Len(buckets[i]) = K /\ pools[i] # <<>>

\* C6: processing a PING_RESPONSE whose request ID is not supervised changes
\* no bucket, no last_seen date, no pool, no busy flag and no supervised message.
UntrackedResponseIsNoOp ==
    [][(\/ \E m \in responses : NotifyDelete(m) /\ ~msg'.tracked
        \/ ~msg.tracked /\ NotifySetMostRecentlySeen
        \/ ~msg.tracked /\ NotifySetAvailable)
       => UNCHANGED <<buckets, pools, busy, messages>>]_vars

\* C7: when the answer of the least recently seen node a to the PING sent for
\* candidate c (not in the full bucket) has been processed before the PING
\* expired, the bucket has the same members, c is out of the pool and the pool
\* is not busy.
LiveNodeDiscardsCandidate ==
    [][(NotifySetAvailable /\ msg.tracked)
       => LET i == FindBucketIndex(msg.sender_id)
              c == msg.replacement
          IN  (Len(buckets[i]) = K /\ c \notin Ids(buckets[i]))
              => /\ Ids(buckets'[i]) = Ids(buckets[i])
                 /\ msg.sender_id \in Ids(buckets'[i])
                 /\ c \notin {pools'[i][j] : j \in 1 .. Len(pools'[i])}
                 /\ ~busy'[i]]_vars

\* C8: when the inserter picks candidate c for a full bucket i whose least
\* recently seen node a has no queue, then within that pass no PING is sent and
\* no message is supervised for the bucket, a is out of the bucket, c is in
\* it, and the pool is not busy.
DeadNodeReplacedAtOnce ==
    [][InserterTick
       => \A i \in BucketIds :
            LET a == GetLeastRecentlySeen(buckets[i])
                c == pools[i][Len(pools[i])]
            IN  (~busy[i] /\ pools[i] # <<>> /\ Len(buckets[i]) = K /\ a \notin queues)
                => /\ \A p \in pings' \ pings : FindBucketIndex(p.recipient) # i
                   /\ \A m \in messages' \ messages : FindBucketIndex(m.recipient) # i
                   /\ a \notin Ids(buckets'[i])
                   /\ c \in Ids(buckets'[i])
                   /\ Ids(buckets'[i]) = (Ids(buckets[i]) \ {a}) \cup {c}
                   /\ ~busy'[i]]_vars

\* C9: after node a, which did not answer, was replaced by candidate c in
\* bucket i, c is the most recently seen node of the bucket and no node of the
\* bucket has a later last_seen date.
ReplacementIsMostRecentlySeen ==
    [][\A i \in BucketIds : \A a, c \in Peers :
          (/\ a \in Ids(buckets[i]) /\ c \notin Ids(buckets[i])
           /\ a \notin Ids(buckets'[i]) /\ c \in Ids(buckets'[i]))
          => /\ GetMostRecentlySeen(buckets'[i]) = c
             /\ \A j, l \in 1 .. Len(buckets'[i]) :
                   buckets'[i][j].identifier = c
                       => buckets'[i][l].last_seen_date <= buckets'[i][j].last_seen_date]_vars

\* C5: pool drain. With no new candidate offered and no PING timing out, after
\* K + pending passes of the inserter, each made once the PING of the pass
\* before was answered and the answer processed, every insertion pool is empty.
PoolsDrain ==
    quiet.rounds >= K + quiet.pending => \A i \in BucketIds : pools[i] = <<>>

\* C10: an insertion pool holds a candidate at most once, and while one
\* candidate c, alone in the pool since it entered it, is in neither the bucket
\* nor discarded, at most one PING was sent for the bucket.
OnePingPerCandidate ==
    \A i \in BucketIds :
        /\ \A j, l \in 1 .. Len(pools[i]) : pools[i][j] = pools[i][l] => j = l
        /\ (cycle[i].sole /\ Len(pools[i]) = 1 /\ pools[i][1] \notin Ids(buckets[i]))
            => cycle[i].pings <= 1

\* The position of the most significant set bit of x, for 0 < x.
MostSignificantBit(x) == CHOOSE i \in 0 .. x : Pow2(i) <= x /\ x < Pow2(i + 1)

\* C19: bucket partition. For every local identifier and every identifier c
\* other than it, exactly one index i satisfies (c >> i) = (local >> i) XOR 1,
\* __find_bucket_index(c) returns that index, and it is the position of the
\* most significant set bit of c XOR local.
BucketPartition ==
    (answer.op = "find_bucket_index" /\ answer.node_id # table.identifier)
    => LET c == answer.node_id
           matching == {i \in 0 .. table.id_length - 1 :
                            Shr(c, i) = Xor1(Shr(table.identifier, i))}
       IN /\ Cardinality(matching) = 1
          /\ answer.value \in matching
          /\ answer.value = MostSignificantBit(Xor(c, table.identifier))

BucketPartitionWitness ==
    /\ table.identifier = 2
    /\ answer.op = "find_bucket_index" /\ answer.node_id = 6 /\ answer.value = 2

\* The routing table of node 5 (8 bits, k = 3) after add_node(6), add_node(7),
\* add_node(4), and find_closest(0, 3) was called on it.
ScenarioClosest ==
    /\ table.identifier = 5 /\ table.id_length = 8 /\ table.k = 3
    /\ answer.added = <<6, 7, 4>>
    /\ answer.op = "find_closest" /\ answer.node_id = 0 /\ answer.value[1] = 3

\* The buckets of the scenario: B[0] = {4}, B[1] = {6, 7}, the others empty.
ScenarioBuckets ==
    /\ Ids(table.buckets[0]) = {4} /\ Len(table.buckets[0]) = 1
    /\ Ids(table.buckets[1]) = {6, 7} /\ Len(table.buckets[1]) = 2
    /\ \A i \in 2 .. table.id_length - 1 : table.buckets[i] = <<>>

\* C20, as stated: with local id 5, L = 8 and k = 3, after inserting 6, 7 and 4
\* in that order, B[0] = {4}, B[1] = {6, 7}, every other bucket is empty and
\* find_closest(0, 3) returns [4, 7, 6].
ScenarioClosestAsStated ==
    ScenarioClosest => ScenarioBuckets /\ answer.value[2] = <<4, 7, 6>>

\* C20, amended: the same, and find_closest(0, 3) returns [4, 6, 7], the
\* identifiers in the ascending order of their XOR distance to the target 0.
ScenarioClosestByDistance ==
    ScenarioClosest => ScenarioBuckets /\ answer.value[2] = <<4, 6, 7>>

ScenarioClosestWitness ==
    ScenarioClosest /\ Len(answer.value[2]) = 3

\* The supervised message of request ID rid, if any, has expired.
ExpiredTracked(rid) == \E m \in messages : m.request_id = rid /\ 2 * m.expiration < now

\* C13: the callback is started at most once for a record, only for a record
\* that was added and not cancelled, with the arguments of that record, and only
\* after its expiration date has passed; and, as long as the supervisor is not
\* stopped, a supervised record that has expired and is not cancelled is
\* eventually removed by a scan of the cleaner, which starts its callback.
CallbackOncePerExpiredRecord ==
    /\ [](\A f \in log.started :
            /\ f.record \in log.added
            /\ 2 * f.record.expiration < f.time
            /\ f.record.request_id \notin log.cancelled
            /\ \A g \in log.started :
                 g.record.request_id = f.record.request_id => g = f)
    /\ \A rid \in 1 .. MaxRequests :
         ExpiredTracked(rid)
            ~> \/ rid \in log.expired /\ \E f \in log.started : f.record.request_id = rid
               \/ rid \in log.cancelled
               \/ ~supervisor.continue

CallbackWitness ==
    /\ \E f \in log.started : f.record \notin callbacks
    /\ log.cancelled # {}
    /\ supervisor.continue

CallbackOutsideLock ==
    [][(\E cb \in callbacks : CallbackThread(cb)) => supervisor.lock = "free"]_vars

\* C16: add with a supervised request ID raises and leaves the supervised
\* record as it is; add with a request ID that is not supervised makes exactly
\* that record supervised.
DuplicateAddRejected ==
    [][\A rid \in 1 .. MaxRequests, expiration \in 0 .. PingTimeout,
          recipient \in Pinged, replacement \in Candidates :
          AddAny(rid, expiration, recipient, replacement)
          => LET record == [request_id |-> rid, expiration |-> expiration,
                            recipient |-> recipient, replacement |-> replacement]
             IN IF \E m \in messages : m.request_id = rid
                THEN raised' = "Exception" /\ messages' = messages
                ELSE /\ raised' = "no"
                     /\ record \in messages'
                     /\ messages' \ {record} = messages]_vars

DuplicateAddWitness ==
    /\ raised = "Exception"
    /\ \E m \in messages : m.expiration = PingTimeout

\* C17: after stop the cleaner starts to sleep at most once more: it breaks
\* at the end of the pass that follows.
CleanerStopsAtNextTick == log.sleeps <= 1

CleanerStopsWitness ==
    /\ log.sleeps = 1 /\ supervisor.pc = "exit"

\* The names of the first messages that the node received.
Received(names) ==
    /\ Len(delivered) >= Len(names)
    /\ \A i \in 1 .. Len(names) : delivered[i].name = names[i]

\* A PING_NODE_RESPONSE was sent for the i-th message that the node received.
Answered(i) ==
    \E r \in outbox :
       /\ Len(delivered) >= i
       /\ r.name = "PING_NODE_RESPONSE"
       /\ r.request_id = delivered[i].request_id
       /\ r.recipient = delivered[i].sender_id

\* C11: a node that receives DISCONNECT, PING, RECONNECT and PING never sends a
\* PING_NODE_RESPONSE for the first PING, and eventually sends one for the
\* second PING if its sender stays reachable.
DisconnectThenReconnect ==
    /\ [](Received(<<"DISCONNECT_NODE", "PING_NODE">>) => ~Answered(2))
    /\ Received(<<"DISCONNECT_NODE", "PING_NODE", "RECONNECT_NODE", "PING_NODE">>)
          ~> (Answered(4) \/ queues \cap MessageSenders("PING_NODE") = {})

\* The messages that a disconnected node drops.
Dropped == MessageNames \ {"TERMINATE_NODE", "RECONNECT_NODE"}

\* The i-th message reaches a node that a DISCONNECT has disconnected.
ReceivedDisconnected(i) ==
    /\ Len(delivered) >= i
    /\ delivered[1].name = "DISCONNECT_NODE"
    /\ \A j \in 2 .. i : delivered[j].name \in Dropped

\* C12: a node that is disconnected drops a message other than TERMINATE and
\* RECONNECT: it sends nothing, it leaves the routing table, the supervised
\* PINGs and the connection state as they are; and the listener takes the
\* message from its queue and goes on to the next one.
DisconnectedNodeDrops ==
    /\ [][(ListenerDispatch /\ ~node.connected /\ node.message.name \in Dropped)
            => /\ UNCHANGED <<buckets, pools, busy, messages, outbox>>
               /\ node'.connected = node.connected
               /\ node'.pc = "get"]_vars
    /\ \A i \in 2 .. MaxMessages :
          ReceivedDisconnected(i)
             ~> (node.handled > i \/ (node.handled = i /\ node.pc = "get"))

\* C18: once the node has processed TERMINATE its queue is no longer
\* registered, the listener has left its loop, and the supervisor of the node
\* and the inserter thread of its routing table have been told to stop.
TerminateStopsTheNode ==
    (node.message.name = "TERMINATE_NODE" /\ node.pc \notin {"dispatch", "process"})
       => /\ LocalId \notin queues
          /\ node.pc = "exit"
          /\ ~node.ping_supervisor
          /\ ~node.shared_continue

\* The identifiers held by the buckets bs, and by the pools ps.
BucketsIds(bs) == UNION {Ids(bs[i]) : i \in BucketIds}

PoolsIds(ps) == UNION {{ps[i][j] : j \in 1 .. Len(ps[i])} : i \in BucketIds}

Min(a, b) == IF a < b THEN a ELSE b

\* C21: find_closest(target, n) returns the first min(n, total) identifiers of
\* the buckets in the ascending order of their XOR distance to target: no
\* identifier twice, none closer left out, never the local identifier, and no
\* identifier of an insertion pool. Each call reads the buckets in one step,
\* under the lock of the buckets.
FindClosestContract ==
    \A target \in NodeIds : \A n \in 0 .. IdLength * K :
        LET result == FindClosest(NodeTable(buckets), target, n)
            found == {result[j] : j \in 1 .. Len(result)}
        IN  /\ Len(result) = Min(n, Cardinality(BucketsIds(buckets)))
            /\ found \subseteq BucketsIds(buckets)
            /\ \A j \in 1 .. Len(result) - 1 :
                   Xor(result[j], target) < Xor(result[j + 1], target)
            /\ \A left \in BucketsIds(buckets) \ found : \A c \in found :
                   Xor(c, target) < Xor(left, target)
            /\ LocalId \notin found
            /\ found \cap PoolsIds(pools) = {}

\* C22: Bucket.add_node answers (False, True) for an identifier of the bucket,
\* full or not, (False, False) for a new identifier when the bucket is full,
\* both without a change, and otherwise appends the node and answers
\* (True, False); it never answers (True, True).
BucketAddContract ==
    \A i \in BucketIds : \A c \in Peers :
        LET nodes == buckets[i]
            node_data == [identifier |-> c, last_seen_date |-> FloorTime]
            r == BucketAddNode(nodes, node_data)
        IN  /\ ~(r.added /\ r.already_in)
            /\ c \in Ids(nodes) => (~r.added /\ r.already_in /\ r.nodes = nodes)
            /\ (c \notin Ids(nodes) /\ Len(nodes) = K)
                  => (~r.added /\ ~r.already_in /\ r.nodes = nodes)
            /\ (c \notin Ids(nodes) /\ Len(nodes) # K)
                  => /\ r.added /\ ~r.already_in
                     /\ Len(r.nodes) = Len(nodes) + 1
                     /\ SubSeq(r.nodes, 1, Len(nodes)) = nodes
                     /\ r.nodes[Len(r.nodes)] = node_data

\* A bucket is full, and a candidate that was refused waits in its pool.
BucketAddWitness ==
    \E i \in BucketIds : Len(buckets[i]) = K /\ pools[i] # <<>>

\* C23: get_least_recently_seen returns a node of the smallest last_seen_date,
\* the first inserted among them, get_most_recently_seen a node of the
\* largest last_seen_date, the last inserted among them; both return None on
\* an empty bucket, and they differ on a bucket of two nodes or more.
RecentlySeenContract ==
    \A i \in BucketIds :
        LET nodes == buckets[i]
            lrs == GetLeastRecentlySeen(nodes)
            mrs == GetMostRecentlySeen(nodes)
        IN  IF nodes = <<>> THEN lrs = None /\ mrs = None
            ELSE /\ \E a, b \in 1 .. Len(nodes) :
                      /\ nodes[a].identifier = lrs
                      /\ nodes[b].identifier = mrs
                      /\ \A l \in 1 .. Len(nodes) :
                            /\ nodes[a].last_seen_date <= nodes[l].last_seen_date
                            /\ nodes[a].last_seen_date = nodes[l].last_seen_date => a <= l
                            /\ nodes[b].last_seen_date >= nodes[l].last_seen_date
                            /\ nodes[b].last_seen_date = nodes[l].last_seen_date => b >= l
                 /\ Len(nodes) >= 2 => lrs # mrs

\* Two nodes of a bucket have the same last_seen_date.
RecentlySeenWitness ==
    \E i \in BucketIds :
        /\ Len(buckets[i]) >= 2
        /\ buckets[i][1].last_seen_date = buckets[i][2].last_seen_date

\* The last_seen_date of the node c in the bucket nodes.
LastSeenDate(nodes, c) ==
    nodes[CHOOSE j \in 1 .. Len(nodes) : nodes[j].identifier = c].last_seen_date

\* C29: once __thread_ping_no_response(pinged, replacement) has run for bucket
\* i, pinged is out of the bucket, replacement is in the bucket and out of
\* the pool, the pool is not busy, and the other buckets, pools and busy flags
\* are as they were.
TimeoutReplacesPinged ==
    [][\A cb \in callbacks :
          RunCallback(cb)
          => LET i == FindBucketIndex(cb.recipient) IN
             /\ cb.recipient \notin Ids(buckets'[i])
             /\ cb.replacement \in Ids(buckets'[i])
             /\ \A j \in 1 .. Len(pools'[i]) : pools'[i][j] # cb.replacement
             /\ ~busy'[i]
             /\ \A l \in BucketIds \ {i} :
                   buckets'[l] = buckets[l] /\ pools'[l] = pools[l] /\ busy'[l] = busy[l]]_vars

\* C30: add_node(c, message) for a node c of the bucket i sets the
\* last_seen_date of c to the current time and makes c the most recently seen
\* node of the bucket; the identifiers of the bucket, the pools and the busy
\* flags are as they were.
AddNodeTouchesKnownNode ==
    [][\A c \in Peers :
          (CallAddNode(c) /\ c \in Ids(buckets[FindBucketIndex(c)]))
          => LET i == FindBucketIndex(c) IN
             /\ Ids(buckets'[i]) = Ids(buckets[i])
             /\ LastSeenDate(buckets'[i], c) \in {FloorTime, CeilTime}
             /\ GetMostRecentlySeen(buckets'[i]) = c
             /\ UNCHANGED <<pools, busy>>]_vars

\* The response to the message that the listener is processing.
ResponseTo(name, args) ==
    [name |-> name, request_id |-> node.message.request_id, sender_id |-> LocalId,
     recipient |-> node.message.sender_id, args |-> args]

\* The insert policy was applied to node_id: it is in its bucket, or in the
\* pool of its bucket.
OfferedTo(bs, ps, node_id) ==
    LET i == FindBucketIndex(node_id) IN
    \/ node_id \in Ids(bs[i])
    \/ \E j \in 1 .. Len(ps[i]) : ps[i][j] = node_id

\* C24: the processing of FIND_NODE(sender, target) sends one
\* FIND_NODE_RESPONSE to the sender, from the local node, with the request ID
\* of the FIND_NODE and find_closest(target, id_length) as computed before the
\* sender is added; then the sender is in its bucket or in the pool of its
\* bucket, and the listener waits for the next message.
FindNodeAnswered ==
    [][ProcessFindNode
       => /\ outbox' \ outbox =
                {ResponseTo("FIND_NODE_RESPONSE",
                            FindClosest(NodeTable(buckets), node.message.args, IdLength))}
          /\ OfferedTo(buckets', pools', node.message.sender_id)
          /\ node'.pc = "get" /\ node'.raised = "no"]_vars

\* C25: the processing of PING_NODE from a sender that has a queue sends one
\* PING_NODE_RESPONSE with the request ID of the PING to the sender, and the
\* sender is then in its bucket or in the pool of its bucket; for a sender
\* without a queue nothing is sent; in both cases the listener waits for the
\* next message.
PingNodeAnswered ==
    [][ProcessPingNode
       => /\ IF node.message.sender_id \in queues
             THEN /\ outbox' \ outbox = {ResponseTo("PING_NODE_RESPONSE", None)}
                  /\ OfferedTo(buckets', pools', node.message.sender_id)
             ELSE outbox' = outbox
          /\ node'.pc = "get" /\ node'.raised = "no"]_vars

AnsweredPingNeverTimesOut ==
    \A cb \in callbacks : cb.request_id \notin answered

\* The routing table rt holds the node origin in the bucket of its index and
\* nothing else.
HoldsOnly(rt, origin) ==
    LET i == FindBucketIndexIn(rt, origin, 0) IN
    /\ i # None
    /\ \A l \in 0 .. rt.id_length - 1 :
          Ids(rt.buckets[l]) = IF l = i THEN {origin} ELSE {}

\* C26: the construction of a node with an origin ends with the origin alone
\* in the routing table, in the bucket of its index, no pool touched, one
\* FIND_NODE sent to the origin with the local node as sender and as target,
\* and its request ID kept as the bootstrap message ID; the construction of
\* the origin node ends with no message sent and an empty routing table.
BootstrapDone ==
    boot.pc = "routing_table"
       ~> /\ boot.pc = "constructed"
          /\ table.identifier = boot.node_id
          /\ \A i \in BucketIds : pools[i] = <<>>
          /\ IF boot.origin = None
             THEN /\ outbox = {}
                  /\ \A l \in 0 .. table.id_length - 1 : table.buckets[l] = <<>>
             ELSE /\ HoldsOnly(table, boot.origin)
                  /\ outbox = {[name |-> "FIND_NODE",
                                request_id |-> boot.boostrap_message_id,
                                sender_id |-> boot.node_id, recipient |-> boot.origin,
                                args |-> boot.node_id]}

\* C31: add_node(c, message) on a full bucket i that does not hold c changes
\* pool i only: c is in the pool afterwards (appended when it was not there,
\* the pool as it was when it was), and the buckets with their last_seen
\* dates, the PINGs sent, the supervised messages, the request IDs and the busy
\* flags are as they were.
AddNodeOnFullBucket ==
    [][\A c \in Peers :
          LET i == FindBucketIndex(c) IN
          (CallAddNode(c) /\ Len(buckets[i]) = K /\ c \notin Ids(buckets[i]))
          => /\ c \in {pools'[i][j] : j \in 1 .. Len(pools'[i])}
             /\ pools'[i] = IF c \in PoolIds(i) THEN pools[i] ELSE Append(pools[i], c)
             /\ \A l \in BucketIds \ {i} : pools'[l] = pools[l]
             /\ raised' = "no"
             /\ UNCHANGED <<buckets, busy, pings, messages, callbacks, request_id>>]_vars

\* A candidate waits in the pool of a full bucket that does not hold it, no
\* PING having been sent.
AddNodeOnFullBucketWitness ==
    \E i \in BucketIds :
        /\ Len(buckets[i]) = K
        /\ PoolIds(i) # {}
        /\ PoolIds(i) \cap Ids(buckets[i]) = {}
        /\ request_id = 0 /\ ~busy[i] /\ raised = "no"

\* The PINGs that a step sends to nodes of bucket i, and the messages that it
\* gives to the supervisor for them.
PingsSentTo(i) == {p \in pings' \ pings : FindBucketIndex(p.recipient) = i}
SupervisedFor(i) == {m \in messages' \ messages : FindBucketIndex(m.recipient) = i}

WritesUnderLockBuckets ==
    [][(~LockBucketsFree /\ <<buckets, pools, busy>>' # <<buckets, pools, busy>>)
       => InserterVisit]_vars

\* C34: when the processor of a FIND_NODE or of a PING_NODE has to answer a
\* sender that has no queue, no exception leaves the processor and the
\* listener waits for the next message.
SendToUnknownRecipientContained ==
    [][((ProcessFindNode \/ ProcessPingNode) /\ node.message.sender_id \notin queues)
       => node'.raised = "no" /\ node'.pc = "get"]_vars

\* C35: no thread of the node waits for ever for a lock: the listener never
\* waits, in the processor of DISCONNECT_NODE or RECONNECT_NODE, for the
\* __connected_lock that it holds itself.
ListenerNeverBlocked ==
    ~(node.pc = "blocked" /\ node.lock = "listener")

\* C36: a full bucket stays full: no step takes a bucket of K nodes to a
\* bucket of another size, and the replacement of a supervised PING is not in
\* the bucket of the pinged node.
FullBucketStaysFull ==
    /\ [][\A i \in BucketIds : Len(buckets[i]) = K => Len(buckets'[i]) = K]_vars
    /\ [](\A m \in messages :
              m.replacement \notin Ids(buckets[FindBucketIndex(m.recipient)]))

\* What can still clear the busy flag of pool i: a supervised PING to a node
\* of bucket i, its callback, or its answer on the way or being processed.
ReleasePending(i) ==
    \/ \E m \in messages \cup callbacks : FindBucketIndex(m.recipient) = i
    \/ \E p \in pings : p.recipient \in queues /\ FindBucketIndex(p.recipient) = i
    \/ \E r \in responses : FindBucketIndex(r.sender_id) = i
    \/ pc # "idle" /\ FindBucketIndex(msg.sender_id) = i

\* The clock of the model stopped while a PING to a node of bucket i is
\* supervised and has not expired.
ClockStopped(i) ==
    /\ now = MaxTime
    /\ \E m \in messages : FindBucketIndex(m.recipient) = i /\ now <= 2 * m.expiration

ConstructorOutsideInserter ==
    boot.pc \notin {"scan", "sleep", "check"}

\* C39: once the supervisor is stopped, no callback thread is started any
\* more: a message that is supervised when stop is called stays away from
\* the callback.
NoCallbackAfterStop ==
    [][~supervisor.continue => callbacks' \subseteq callbacks]_vars

\* C40: the processing of a FIND_NODE_RESPONSE whose list holds the local
\* identifier raises nothing and leaves the listener waiting for the next
\* message; every other identifier of the list is then in its bucket or in
\* the pool of its bucket, and the local identifier is in none.
LocalIdInFindNodeResponse ==
    [][(/\ ProcessFindNodeResponse
        /\ \E j \in 1 .. Len(node.message.args) : node.message.args[j] = LocalId)
       => /\ node'.raised = "no" /\ node'.pc = "get"
          /\ \A j \in 1 .. Len(node.message.args) :
                node.message.args[j] # LocalId
                    => OfferedTo(buckets', pools', node.message.args[j])
          /\ \A i \in BucketIds : LocalId \notin Ids(buckets'[i])]_vars
====
